---------------------------- MODULE Spec2Model ----------------------------
(***************************************************************************)
(* A model of viocha/go-option: the Option[T] and Result[T] containers,    *)
(* their combinators, and the panic-safe executor (DoSafe / SafeDo) with   *)
(* the ErrMust sentinel helpers.                                           *)
(*                                                                         *)
(* Go values are modelled as records:                                      *)
(*   NIL            the nil pointer / nil error / "nothing"                *)
(*   [int |-> n]    an int                                                 *)
(*   [str |-> s]    a string                                               *)
(*   [id, msg, subs] an error value; id is its address (errors compare by  *)
(*                  identity), msg its own text, subs what it unwraps to.  *)
(* A callback is modelled by what one run of it does: it returns (with a   *)
(* value) or it panics with a payload.                                     *)
(*                                                                         *)
(* Every record constructor lists its fields in the order TLC keeps them   *)
(* in, so that no worker reorders a record that another worker is reading. *)
(***************************************************************************)
EXTENDS Integers, Sequences, FiniteSets, TLC

VARIABLES
    mem,    \* the heap of payload cells: mem[a] is the value stored at address a
    objs,   \* the containers the client holds: objs[i] is one, or NIL
    ptr,    \* the pointer the client last got from ToPtr (0: none)
    chain,  \* TRUE: the client keeps what a call returns and goes on with it;
            \* FALSE: the client makes single calls on the containers it has
    last    \* the last call: operation, inputs and what came out

vars == <<mem, objs, ptr, chain, last>>

----------------------------------------------------------------------------
(* Bounds of the model *)

MaxVal == 1     \* payload values are the ints 0..MaxVal
MaxCells == 2   \* at most this many payload cells are live at a time
MaxObjs == 1    \* the client holds at most this many containers at a time
MaxChain == 2   \* a chain written as one expression has at most this many steps

----------------------------------------------------------------------------
(* Values *)

NIL == [nil |-> TRUE]
IntV(n) == [int |-> n]
StrV(s) == [str |-> s]

Vals == {IntV(n) : n \in 0..MaxVal}

\* *new(T) for T = int
Zero == IntV(0)

IsError(x) == "id" \in DOMAIN x

\* an error with no Unwrap, such as errors.New(msg) or fmt.Errorf(msg); n is its address
Errorf(msg, n) == [msg |-> msg, id |-> n, subs |-> <<>>]

\* errors.Join(a, b): nil entries are dropped, nil when nothing is left,
\* otherwise a new error (address n) that unwraps to the entries
Join(a, b, n) ==
    LET es == SelectSeq(<<a, b>>, LAMBDA e : e # NIL)
    IN  IF Len(es) = 0 THEN NIL ELSE [msg |-> "", id |-> n, subs |-> es]

\* errors.Is(err, target): identity, or identity of anything err unwraps to
RECURSIVE Is(_, _)
Is(err, target) ==
    IF err = NIL \/ target = NIL
    THEN err = target
    ELSE \/ err = target
         \/ \E i \in 1..Len(err.subs) : Is(err.subs[i], target)

\* err.Error(): a joined error prints its entries one per line
RECURSIVE ErrorText(_)
ErrorText(e) ==
    IF Len(e.subs) = 0 THEN e.msg
    ELSE LET RECURSIVE Lines(_)
             Lines(i) == IF i = Len(e.subs) THEN ErrorText(e.subs[i])
                         ELSE ErrorText(e.subs[i]) \o "\n" \o Lines(i + 1)
         IN  Lines(1)

\* fmt's %v of a value
Format(x) ==
    IF IsError(x) THEN ErrorText(x)
    ELSE IF "int" \in DOMAIN x THEN ToString(x.int)
    ELSE IF "str" \in DOMAIN x THEN x.str
    ELSE "<nil>"

----------------------------------------------------------------------------
(* util: the sentinel and the wrapping helpers *)

ErrMust == Errorf("expected panic occurred", 0)

\* errors of the caller
E1 == Errorf("e1", 1)
E2 == Errorf("e2", 2)
\* a caller's error that wraps E1
W1 == [msg |-> "", id |-> 3, subs |-> <<E1>>]

\* the identity of the first error the library makes during one call, and of
\* the first error a callback makes during that call
Fresh == W1.id + 1
CbFresh == Fresh + 3

ToErrorAlwaysFormats(r, n) == Errorf(Format(r), n)

ToError(r, n) == IF IsError(r) THEN r ELSE Errorf(Format(r), n)

WrapMsg(err, msg, n) == Join(err, Errorf(msg, n), n + 1)

WrapSubDropsSub(sub, parent, msg, n) == WrapMsg(parent, msg, n)

WrapSub(sub, parent, msg, n) == Join(WrapMsg(parent, msg, n), sub, n + 2)

WrapMust(v, n) == Join(ErrMust, ToError(v, n), n + 1)

WrapMustAlwaysJoins(v, n) == Join(ErrMust, ToError(v, n), n + 1)

WrapMustLatest(v, n) ==
    LET err == ToError(v, n)
    IN  IF ~Is(err, ErrMust) THEN Join(ErrMust, err, n + 1) ELSE err

\* What a call gives back: it returns ret, or it panics with payload.
Return(v) == [panicked |-> FALSE, payload |-> NIL, ret |-> v]
Panic(p) == [panicked |-> TRUE, payload |-> p, ret |-> NIL]

\* util.MustNil of the latest util
MustNil(err, n) == IF err # NIL THEN Panic(WrapMustLatest(err, n)) ELSE Return(NIL)

MustGetBare(v, err, n) == IF err # NIL THEN Panic(err) ELSE Return(v)

MustGet(v, err, n) ==
    IF err # NIL
    THEN Panic(WrapSub(err, ErrMust, "panic in MustGet", n))
    ELSE Return(v)

MustGetLatest(v, err, n) ==
    IF err # NIL
    THEN IF ~Is(err, ErrMust)
         THEN Panic(WrapSub(err, ErrMust, "panic in MustGet", n))
         ELSE Panic(err)
    ELSE Return(v)

----------------------------------------------------------------------------
(* The panic-safe executor.  f is one run of the callback: Return(..) or   *)
(* Panic(p).  The executor returns its error (NIL for none) or re-panics.  *)

DoSafeReturnSentinel(f, errs, n) ==
    IF ~f.panicked THEN Return(NIL)
    ELSE IF Len(errs) = 0 THEN Return(ToError(f.payload, n))
    ELSE IF IsError(f.payload)
         THEN IF \E i \in 1..Len(errs) : Is(f.payload, errs[i])
              THEN Return(errs[CHOOSE i \in 1..Len(errs) : Is(f.payload, errs[i])])
              ELSE Panic(f.payload)
         ELSE Panic(f.payload)

DoSafeRepanicConverted(f, errs, n) ==
    IF ~f.panicked THEN Return(NIL)
    ELSE IF Len(errs) = 0 THEN Return(ToError(f.payload, n))
    ELSE IF IsError(f.payload) /\ \E i \in 1..Len(errs) : Is(f.payload, errs[i])
         THEN Return(f.payload)
         ELSE Panic(ToError(f.payload, n))

DoSafeDropsErr(f, errs, n) ==
    IF ~f.panicked THEN Return(NIL)
    ELSE IF Len(errs) = 0 THEN Return(ToError(f.payload, n))
    ELSE IF IsError(f.payload) /\ \E i \in 1..Len(errs) : Is(f.payload, errs[i])
         THEN Return(NIL)
         ELSE Panic(f.payload)

DoSafeSwallowsUnmatched(f, errs, n) ==
    IF ~f.panicked THEN Return(NIL)
    ELSE IF Len(errs) = 0 THEN Return(ToError(f.payload, n))
    ELSE IF IsError(f.payload) /\ \E i \in 1..Len(errs) : Is(f.payload, errs[i])
         THEN Return(f.payload)
         ELSE Return(NIL)

DoSafe(f, errs, n) ==
    IF ~f.panicked THEN Return(NIL)                        \* recover() = nil
    ELSE IF Len(errs) = 0 THEN Return(ToError(f.payload, n))
    ELSE IF IsError(f.payload)
         THEN IF \E i \in 1..Len(errs) : Is(f.payload, errs[i])
              THEN Return(f.payload)
              ELSE Panic(f.payload)
         ELSE Panic(f.payload)

\* internal/common.SafeDo: the same executor under its later name
SafeDo(f, errs, n) ==
    IF ~f.panicked THEN Return(NIL)
    ELSE IF Len(errs) = 0 THEN Return(ToError(f.payload, n))
    ELSE IF IsError(f.payload)
         THEN IF \E i \in 1..Len(errs) : Is(f.payload, errs[i])
              THEN Return(f.payload)
              ELSE Panic(f.payload)
         ELSE Panic(f.payload)

\* the first common.DoSafe: no expected list, every panic is captured
CommonDoSafe(f, n) == IF f.panicked THEN Return(ToError(f.payload, n)) ELSE Return(NIL)

DoWithPanicCatchNone(f, n) == IF f.panicked THEN Panic(f.payload) ELSE Return(NIL)

DoWithPanic(f, n) == DoSafe(f, <<ErrMust>>, n)

\* WrapPanic that re-panics with what it captured, as it is
WrapPanicBare(f, n) ==
    LET err == SafeDo(f, <<>>, n).ret
    IN  IF err # NIL THEN Panic(err) ELSE Return(NIL)

\* util.WrapPanic: every panic of f is captured and re-raised as an error
\* matching ErrMust
WrapPanic(f, n) ==
    LET err == SafeDo(f, <<>>, n).ret
    IN  IF err # NIL
        THEN Panic(IF ~Is(err, ErrMust) THEN WrapMust(err, n + 1) ELSE err)
        ELSE Return(NIL)

\* the same, in the util whose WrapMust checks for ErrMust itself
WrapPanicLatest(f, n) ==
    LET err == SafeDo(f, <<>>, n).ret
    IN  IF err # NIL
        THEN Panic(IF ~Is(err, ErrMust) THEN WrapMustLatest(err, n + 1) ELSE err)
        ELSE Return(NIL)

\* util.WrapPanicGet: the same, and f's result is returned
WrapPanicGet(f, n) ==
    LET err == SafeDo(f, <<>>, n).ret
    IN  IF err # NIL
        THEN Panic(IF ~Is(err, ErrMust) THEN WrapMust(err, n + 1) ELSE err)
        ELSE Return(f.ret)

WrapPanicGetLatest(f, n) ==
    LET err == SafeDo(f, <<>>, n).ret
    IN  IF err # NIL
        THEN Panic(IF ~Is(err, ErrMust) THEN WrapMustLatest(err, n + 1) ELSE err)
        ELSE Return(f.ret)

\* must.CatchMustPanic
CatchMustPanic(f, n) == SafeDo(f, <<ErrMust>>, n)

----------------------------------------------------------------------------
(* The heap of payload cells.  &value allocates a cell; a cell nothing     *)
(* refers to any more is reclaimed by the garbage collector.               *)

Addrs == 1..MaxCells

EmptyMem == [a \in Addrs |-> NIL]

HasFree(m) == \E a \in Addrs : m[a] = NIL

Alloc(m) == CHOOSE a \in Addrs : m[a] = NIL /\ \A b \in 1..(a - 1) : m[b] # NIL

Roots(os, p) == {os[i].val : i \in {j \in DOMAIN os : os[j] # NIL}} \cup {p}

Collect(m, os, p) == [a \in Addrs |-> IF a \in Roots(os, p) THEN m[a] ELSE NIL]

\* What a container operation gives back: the container (or value) it
\* returns or the payload it panics with, the heap it leaves, and the
\* arguments of each callback invocation it made, in order.
Done(c, m, k) == [mem |-> m, panicked |-> FALSE, payload |-> NIL, ret |-> c, calls |-> k]
Fault(p, m, k) == [mem |-> m, panicked |-> TRUE, payload |-> p, ret |-> NIL, calls |-> k]

\* the runtime error of dereferencing a nil pointer
NilDeref == Errorf("invalid memory address or nil pointer dereference", Fresh + 2)

\* *p
Deref(m, a) == IF a = 0 THEN Fault(NilDeref, m, <<>>) ELSE Done(m[a], m, <<>>)

----------------------------------------------------------------------------
(* Callbacks.  A callback argument f is one run of the caller's function:  *)
(* [panicked, payload, ret].  A callback that returns a container returns  *)
(* in ret how it builds it with a public constructor, or a container it    *)
(* already holds: [mk |-> "Val", v], [mk |-> "Nul"], [mk |-> "Ok", v],     *)
(* [mk |-> "Err", e], [mk |-> "obj", c].                                   *)

BoolV(b) == [bool |-> b]

\* the closure func() { .. f(x.Get()) .. }: x.Get() runs first and may panic
Invoke(g, f) == IF g.panicked THEN Panic(g.payload) ELSE f

\* the arguments f was invoked with by that closure
Args(g) == IF g.panicked THEN <<>> ELSE <<g.ret>>

\* the same outcome, with the callback invocations k recorded
Called(out, k) == [out EXCEPT !.calls = k]

----------------------------------------------------------------------------
(* option.go: Option[T] *)

\* var result Option[T]
ZeroOption == [val |-> 0, exists |-> FALSE]

Val(m, value) ==
    Done([val |-> Alloc(m), exists |-> TRUE], [m EXCEPT ![Alloc(m)] = value], <<>>)

Nul(m) == Done([val |-> 0, exists |-> FALSE], m, <<>>)

OptionFrom(m, val, err) == IF err # NIL THEN Nul(m) ELSE Val(m, val)

FromPtr(m, val) == IF val = 0 THEN Nul(m) ELSE Val(m, m[val])

IsVal(o) == o.exists

IsNul(o) == ~o.exists

OptionGet(m, o) ==
    IF IsNul(o)
    THEN Fault(StrV("called Option.Unwrap() on a None value"), m, <<>>)
    ELSE Deref(m, o.val)

OptionToPtr(m, o) == IF IsVal(o) THEN Done(o.val, m, <<>>) ELSE Done(0, m, <<>>)

\* what a callback's returned container is, built on heap m
BuiltOption(m, rec) ==
    CASE rec.mk = "Val" -> Val(m, rec.v)
      [] rec.mk = "Nul" -> Nul(m)
      [] rec.mk = "obj" -> Done(rec.c, m, <<>>)

OptionFromFunc(m, f) ==
    LET b == IF f.panicked THEN Done(ZeroOption, m, <<>>) ELSE Val(m, f.ret)
        d == DoWithPanic(f, Fresh)
    IN  IF d.panicked THEN Fault(d.payload, m, <<NIL>>)
        ELSE IF d.ret = NIL THEN Called(b, <<NIL>>)
        ELSE Called(Nul(m), <<NIL>>)

OptionTryKeepsReceiver(m, o, f) ==
    IF IsNul(o) THEN Done(o, m, <<>>)
    ELSE LET g == OptionGet(m, o)
             d == DoWithPanic(Invoke(g, f), Fresh)
         IN  IF d.panicked THEN Fault(d.payload, m, Args(g))
             ELSE Done(o, m, Args(g))

OptionTry(m, o, f) ==
    IF IsNul(o) THEN Done(o, m, <<>>)
    ELSE LET g == OptionGet(m, o)
             d == DoWithPanic(Invoke(g, f), Fresh)
         IN  IF d.panicked THEN Fault(d.payload, m, Args(g))
             ELSE IF d.ret = NIL THEN Done(o, m, Args(g))
             ELSE Called(Nul(m), Args(g))

OptionCatch(m, o, f) ==
    IF IsVal(o) THEN Done(o, m, <<>>)
    ELSE LET d == DoWithPanic(f, Fresh)
         IN  IF d.panicked THEN Fault(d.payload, m, <<NIL>>)
             ELSE IF d.ret = NIL THEN Done(o, m, <<NIL>>)
             ELSE Called(Nul(m), <<NIL>>)

OptionFinally(m, o, f) ==
    LET d == DoWithPanic(f, Fresh)
    IN  IF d.panicked THEN Fault(d.payload, m, <<NIL>>)
        ELSE IF d.ret = NIL THEN Done(o, m, <<NIL>>)
        ELSE Called(Nul(m), <<NIL>>)

OptionFilterInverted(m, o, f) ==
    IF IsNul(o) THEN Nul(m)
    ELSE LET g == OptionGet(m, o)
             run == Invoke(g, f)
             result == IF ~run.panicked /\ run.ret.bool THEN Nul(m).ret ELSE o
             d == DoWithPanic(run, Fresh)
         IN  IF d.panicked THEN Fault(d.payload, m, Args(g))
             ELSE IF d.ret = NIL THEN Done(result, m, Args(g))
             ELSE Called(Nul(m), Args(g))

OptionFilter(m, o, f) ==
    IF IsNul(o) THEN Nul(m)
    ELSE LET g == OptionGet(m, o)
             run == Invoke(g, f)
             result == IF ~run.panicked /\ ~run.ret.bool THEN Nul(m).ret ELSE o
             d == DoWithPanic(run, Fresh)
         IN  IF d.panicked THEN Fault(d.payload, m, Args(g))
             ELSE IF d.ret = NIL THEN Done(result, m, Args(g))
             ELSE Called(Nul(m), Args(g))

OptionElse(m, o, f) ==
    IF IsVal(o) THEN Done(o, m, <<>>)
    ELSE LET b == IF f.panicked THEN Done(ZeroOption, m, <<>>) ELSE BuiltOption(m, f.ret)
             d == DoWithPanic(f, Fresh)
         IN  IF d.panicked THEN Fault(d.payload, m, <<NIL>>)
             ELSE IF d.ret = NIL THEN Called(b, <<NIL>>)
             ELSE Called(Nul(m), <<NIL>>)

OptionElseVal(m, o, f) ==
    IF IsVal(o) THEN Done(o, m, <<>>)
    ELSE LET b == IF f.panicked THEN Done(ZeroOption, m, <<>>) ELSE Val(m, f.ret)
             d == DoWithPanic(f, Fresh)
         IN  IF d.panicked THEN Fault(d.payload, m, <<NIL>>)
             ELSE IF d.ret = NIL THEN Called(b, <<NIL>>)
             ELSE Called(Nul(m), <<NIL>>)

OptionThen(m, o, f) ==
    IF IsNul(o) THEN Nul(m)
    ELSE LET g == OptionGet(m, o)
             run == Invoke(g, f)
             b == IF run.panicked THEN Done(ZeroOption, m, <<>>) ELSE BuiltOption(m, run.ret)
             d == DoWithPanic(run, Fresh)
         IN  IF d.panicked THEN Fault(d.payload, m, Args(g))
             ELSE IF d.ret = NIL THEN Called(b, Args(g))
             ELSE Called(Nul(m), Args(g))

OptionMapNoCheck(m, o, f) ==
    LET g == OptionGet(m, o)
        run == Invoke(g, f)
        b == IF run.panicked THEN Done(ZeroOption, m, <<>>) ELSE Val(m, run.ret)
        d == DoWithPanic(run, Fresh)
    IN  IF d.panicked THEN Fault(d.payload, m, Args(g))
        ELSE IF d.ret = NIL THEN Called(b, Args(g))
        ELSE Called(Nul(m), Args(g))

OptionMap(m, o, f) ==
    IF IsNul(o) THEN Nul(m)
    ELSE LET g == OptionGet(m, o)
             run == Invoke(g, f)
             b == IF run.panicked THEN Done(ZeroOption, m, <<>>) ELSE Val(m, run.ret)
             d == DoWithPanic(run, Fresh)
         IN  IF d.panicked THEN Fault(d.payload, m, Args(g))
             ELSE IF d.ret = NIL THEN Called(b, Args(g))
             ELSE Called(Nul(m), Args(g))

\* Option.HasFunc: o.IsVal() && f(o.Get()), f called directly
OptionHasFunc(m, o, f) ==
    IF ~IsVal(o) THEN Done(BoolV(FALSE), m, <<>>)
    ELSE LET g == OptionGet(m, o)
             run == Invoke(g, f)
         IN  IF run.panicked THEN Fault(run.payload, m, Args(g))
             ELSE Done(run.ret, m, Args(g))

OptionGetOrAlwaysDefault(m, o, value) == Done(value, m, <<>>)

OptionGetOr(m, o, value) == IF IsVal(o) THEN OptionGet(m, o) ELSE Done(value, m, <<>>)

\* f is called directly
OptionGetOrFunc(m, o, f) ==
    IF IsVal(o) THEN OptionGet(m, o)
    ELSE IF f.panicked THEN Fault(f.payload, m, <<NIL>>)
    ELSE Done(f.ret, m, <<NIL>>)

OptionGetOrZero(m, o) == IF IsVal(o) THEN OptionGet(m, o) ELSE Done(Zero, m, <<>>)

\* MapOr(o, f, v)
OptionMapOr(m, o, f, v) ==
    IF IsNul(o) THEN Done(v, m, <<>>)
    ELSE LET g == OptionGet(m, o)
             run == Invoke(g, f)
             d == DoWithPanic(run, Fresh)
         IN  IF d.panicked THEN Fault(d.payload, m, Args(g))
             ELSE IF d.ret = NIL THEN Done(run.ret, m, Args(g))
             ELSE Done(v, m, Args(g))

\* MapOrFunc(o, okFn, defaultFn): defaultFn is called directly
OptionMapOrFunc(m, o, okFn, defaultFn) ==
    IF IsNul(o)
    THEN IF defaultFn.panicked THEN Fault(defaultFn.payload, m, <<NIL>>)
         ELSE Done(defaultFn.ret, m, <<NIL>>)
    ELSE LET g == OptionGet(m, o)
             run == Invoke(g, okFn)
             d == DoWithPanic(run, Fresh)
         IN  IF d.panicked THEN Fault(d.payload, m, Args(g))
             ELSE IF d.ret = NIL THEN Done(run.ret, m, Args(g))
             ELSE IF defaultFn.panicked
                  THEN Fault(defaultFn.payload, m, Args(g) \o <<NIL>>)
                  ELSE Done(defaultFn.ret, m, Args(g) \o <<NIL>>)

(* The earlier Option (Some / None), whose methods call f directly *)

OptionFilterDirect(m, o, f) ==
    IF ~o.exists THEN Nul(m)
    ELSE LET g == OptionGet(m, o)
             run == Invoke(g, f)
         IN  IF run.panicked THEN Fault(run.payload, m, Args(g))
             ELSE IF run.ret = BoolV(TRUE) THEN Done(o, m, Args(g))
             ELSE Called(Nul(m), Args(g))

OptionOr(m, o, b) == IF o.exists THEN Done(o, m, <<>>) ELSE Done(b, m, <<>>)

OptionOrFunc(m, o, f) ==
    IF o.exists THEN Done(o, m, <<>>)
    ELSE IF f.panicked THEN Fault(f.payload, m, <<NIL>>)
    ELSE Called(BuiltOption(m, f.ret), <<NIL>>)

OptionXorAsOr(m, o, b) ==
    IF o.exists THEN Done(o, m, <<>>)
    ELSE IF b.exists THEN Done(b, m, <<>>)
    ELSE Nul(m)

OptionXor(m, o, b) ==
    IF o.exists /\ ~b.exists THEN Done(o, m, <<>>)
    ELSE IF ~o.exists /\ b.exists THEN Done(b, m, <<>>)
    ELSE Nul(m)

----------------------------------------------------------------------------
(* result/result.go: Result[T] *)

\* var newResult Result[T]
ZeroResult == [err |-> NIL, val |-> 0]

Ok(m, value) ==
    Done([err |-> NIL, val |-> Alloc(m)], [m EXCEPT ![Alloc(m)] = value], <<>>)

ErrNoCheck(m, err) == Done([err |-> err, val |-> 0], m, <<>>)

Err(m, err) ==
    IF err = NIL
    THEN Fault(StrV("Err() called with nil error"), m, <<>>)
    ELSE Done([err |-> err, val |-> 0], m, <<>>)

ResultFrom(m, val, err) == IF err # NIL THEN Err(m, err) ELSE Ok(m, val)

IsOk(r) == r.err = NIL

IsErr(r) == ~IsOk(r)

HasErr(r, e) == ~IsOk(r) /\ Is(r.err, e)

ResultGet(m, r) ==
    IF ~IsOk(r)
    THEN Fault(StrV("called Result.Unwrap() on an Err value: " \o Format(r.err)), m, <<>>)
    ELSE Deref(m, r.val)

FromOptionZero(m, o, err) == IF IsVal(o) THEN Ok(m, Zero) ELSE Err(m, err)

FromOption(m, o, err) ==
    IF IsVal(o)
    THEN LET g == OptionGet(m, o)
         IN  IF g.panicked THEN g ELSE Ok(m, g.ret)
    ELSE Err(m, err)

BuiltResult(m, rec) ==
    CASE rec.mk = "Ok" -> Ok(m, rec.v)
      [] rec.mk = "Err" -> Err(m, rec.e)
      [] rec.mk = "obj" -> Done(rec.c, m, <<>>)

ResultFromFunc(m, f) ==
    LET b == IF f.panicked THEN Done(ZeroResult, m, <<>>) ELSE Ok(m, f.ret)
        d == DoWithPanic(f, Fresh)
    IN  IF d.panicked THEN Fault(d.payload, m, <<NIL>>)
        ELSE IF d.ret # NIL THEN Called(Err(m, d.ret), <<NIL>>)
        ELSE Called(b, <<NIL>>)

ResultToPtr(m, r) == IF IsOk(r) THEN Done(r.val, m, <<>>) ELSE Done(0, m, <<>>)

\* Result.Val(): the value as an Option
ResultVal(m, r) ==
    IF IsOk(r)
    THEN LET g == ResultGet(m, r)
         IN  IF g.panicked THEN g ELSE Val(m, g.ret)
    ELSE Nul(m)

\* Result.Err(): the cause as an Option[error]
ResultErr(m, r) == IF ~IsOk(r) THEN Val(m, r.err) ELSE Nul(m)

ResultTryNoCheck(m, r, f) ==
    LET g == ResultGet(m, r)
        d == DoWithPanic(Invoke(g, f), Fresh)
    IN  IF d.panicked THEN Fault(d.payload, m, Args(g))
        ELSE IF d.ret # NIL THEN Called(Err(m, d.ret), Args(g))
        ELSE Done(r, m, Args(g))

ResultTry(m, r, f) ==
    IF IsErr(r) THEN Done(r, m, <<>>)
    ELSE LET g == ResultGet(m, r)
             d == DoWithPanic(Invoke(g, f), Fresh)
         IN  IF d.panicked THEN Fault(d.payload, m, Args(g))
             ELSE IF d.ret # NIL THEN Called(Err(m, d.ret), Args(g))
             ELSE Done(r, m, Args(g))

ResultCatchNoCheck(m, r, f) ==
    LET d == DoWithPanic(f, Fresh)
    IN  IF d.panicked THEN Fault(d.payload, m, <<r.err>>)
        ELSE IF d.ret # NIL THEN Called(Err(m, d.ret), <<r.err>>)
        ELSE Done(r, m, <<r.err>>)

ResultCatch(m, r, f) ==
    IF IsOk(r) THEN Done(r, m, <<>>)
    ELSE LET d == DoWithPanic(f, Fresh)
         IN  IF d.panicked THEN Fault(d.payload, m, <<r.err>>)
             ELSE IF d.ret # NIL THEN Called(Err(m, d.ret), <<r.err>>)
             ELSE Done(r, m, <<r.err>>)

ResultFinally(m, r, f) ==
    LET d == DoWithPanic(f, Fresh)
    IN  IF d.panicked THEN Fault(d.payload, m, <<NIL>>)
        ELSE IF d.ret # NIL THEN Called(Err(m, d.ret), <<NIL>>)
        ELSE Done(r, m, <<NIL>>)

\* Else that returns an Err joining the receiver's cause and the fault
ResultElseJoinsCause(m, r, f) ==
    IF IsOk(r) THEN Done(r, m, <<>>)
    ELSE LET b == IF f.panicked THEN Done(ZeroResult, m, <<>>) ELSE BuiltResult(m, f.ret)
             d == DoWithPanic(f, Fresh)
         IN  IF d.panicked THEN Fault(d.payload, m, <<r.err>>)
             ELSE IF d.ret # NIL
                  THEN Called(Err(m, Join(r.err, d.ret, Fresh + 1)), <<r.err>>)
             ELSE Called(b, <<r.err>>)

ResultElse(m, r, f) ==
    IF IsOk(r) THEN Done(r, m, <<>>)
    ELSE LET b == IF f.panicked THEN Done(ZeroResult, m, <<>>) ELSE BuiltResult(m, f.ret)
             d == DoWithPanic(f, Fresh)
         IN  IF d.panicked THEN Fault(d.payload, m, <<r.err>>)
             ELSE IF d.ret # NIL THEN Called(Err(m, d.ret), <<r.err>>)
             ELSE Called(b, <<r.err>>)

ResultElseMap(m, r, f) ==
    IF IsOk(r) THEN Done(r, m, <<>>)
    ELSE LET b == IF f.panicked THEN Done(ZeroResult, m, <<>>) ELSE Ok(m, f.ret)
             d == DoWithPanic(f, Fresh)
         IN  IF d.panicked THEN Fault(d.payload, m, <<r.err>>)
             ELSE IF d.ret # NIL THEN Called(Err(m, d.ret), <<r.err>>)
             ELSE Called(b, <<r.err>>)

ResultThen(m, r, f) ==
    IF IsErr(r) THEN Err(m, r.err)
    ELSE LET g == ResultGet(m, r)
             run == Invoke(g, f)
             b == IF run.panicked THEN Done(ZeroResult, m, <<>>)
                  ELSE BuiltResult(m, run.ret)
             d == DoWithPanic(run, Fresh)
         IN  IF d.panicked THEN Fault(d.payload, m, Args(g))
             ELSE IF d.ret # NIL THEN Called(Err(m, d.ret), Args(g))
             ELSE Called(b, Args(g))

ResultMap(m, r, f) ==
    IF IsErr(r) THEN Err(m, r.err)
    ELSE LET g == ResultGet(m, r)
             run == Invoke(g, f)
             b == IF run.panicked THEN Done(ZeroResult, m, <<>>) ELSE Ok(m, run.ret)
             d == DoWithPanic(run, Fresh)
         IN  IF d.panicked THEN Fault(d.payload, m, Args(g))
             ELSE IF d.ret # NIL THEN Called(Err(m, d.ret), Args(g))
             ELSE Called(b, Args(g))

ResultMapErrKeepsCause(m, r, f) ==
    IF ~IsOk(r)
    THEN IF f.panicked THEN Fault(f.payload, m, <<r.err>>)
         ELSE Done(r, m, <<r.err>>)
    ELSE Done(r, m, <<>>)

\* the earlier Result.MapErr: f is called directly, outside any executor
ResultMapErr(m, r, f) ==
    IF ~IsOk(r)
    THEN IF f.panicked THEN Fault(f.payload, m, <<r.err>>)
         ELSE Called(Err(m, f.ret), <<r.err>>)
    ELSE Done(r, m, <<>>)

\* the Result.MapErr that runs Err[T](f(r.err)) under the catch-all executor
ResultMapErrSafe(m, r, f) ==
    IF IsOk(r) THEN Done(r, m, <<>>)
    ELSE LET b == IF f.panicked THEN Fault(f.payload, m, <<>>) ELSE Err(m, f.ret)
             d == CommonDoSafe(b, Fresh)
         IN  IF d.ret # NIL THEN Called(Err(m, d.ret), <<r.err>>)
             ELSE Called(b, <<r.err>>)

(* Catch, Finally and Else of the result package that runs callbacks under *)
(* the catch-all common.DoSafe                                             *)

ResultCatchSafe(m, r, f) ==
    IF IsOk(r) THEN Done(r, m, <<>>)
    ELSE LET d == CommonDoSafe(f, Fresh)
         IN  IF d.ret # NIL THEN Called(Err(m, d.ret), <<r.err>>)
             ELSE Done(r, m, <<r.err>>)

ResultFinallySafe(m, r, f) ==
    LET d == CommonDoSafe(f, Fresh)
    IN  IF d.ret # NIL THEN Called(Err(m, d.ret), <<NIL>>)
        ELSE Done(r, m, <<NIL>>)

ResultElseSafe(m, r, f) ==
    IF IsOk(r) THEN Done(r, m, <<>>)
    ELSE LET b == IF f.panicked THEN Done(ZeroResult, m, <<>>) ELSE BuiltResult(m, f.ret)
             d == CommonDoSafe(f, Fresh)
         IN  IF d.ret # NIL THEN Called(Err(m, d.ret), <<r.err>>)
             ELSE Called(b, <<r.err>>)

\* Result.HasFunc: r.IsOk() && f(r.Get()), f called directly
ResultHasFunc(m, r, f) ==
    IF ~IsOk(r) THEN Done(BoolV(FALSE), m, <<>>)
    ELSE LET g == ResultGet(m, r)
             run == Invoke(g, f)
         IN  IF run.panicked THEN Fault(run.payload, m, Args(g))
             ELSE Done(run.ret, m, Args(g))

\* Result.HasErrFunc: !r.IsOk() && f(r.err), f called directly
ResultHasErrFunc(m, r, f) ==
    IF IsOk(r) THEN Done(BoolV(FALSE), m, <<>>)
    ELSE IF f.panicked THEN Fault(f.payload, m, <<r.err>>)
    ELSE Done(f.ret, m, <<r.err>>)

ResultGetErrNoCheck(m, r) == Done(r.err, m, <<>>)

ResultGetErr(m, r) ==
    IF IsOk(r)
    THEN Fault(StrV("called Result.UnwrapErr() on an Ok value"), m, <<>>)
    ELSE Done(r.err, m, <<>>)

\* r.Val().GetOr(v)
ResultGetOr(m, r, v) ==
    LET o == ResultVal(m, r)
    IN  IF o.panicked THEN o
        ELSE LET g == OptionGetOr(o.mem, o.ret, v) IN [g EXCEPT !.mem = m]

\* r.Val().GetOrZero()
ResultGetOrZero(m, r) ==
    LET o == ResultVal(m, r)
    IN  IF o.panicked THEN o
        ELSE LET g == OptionGetOrZero(o.mem, o.ret) IN [g EXCEPT !.mem = m]

\* f is called directly
ResultGetOrFunc(m, r, f) ==
    IF IsOk(r) THEN ResultGet(m, r)
    ELSE IF f.panicked THEN Fault(f.payload, m, <<r.err>>)
    ELSE Done(f.ret, m, <<r.err>>)

\* MapOr(r, f, v)
ResultMapOr(m, r, f, v) ==
    IF IsErr(r) THEN Done(v, m, <<>>)
    ELSE LET g == ResultGet(m, r)
             run == Invoke(g, f)
             d == DoWithPanic(run, Fresh)
         IN  IF d.panicked THEN Fault(d.payload, m, Args(g))
             ELSE IF d.ret # NIL THEN Done(v, m, Args(g))
             ELSE Done(run.ret, m, Args(g))

\* MapOrFunc with errFn under the executor too
ResultMapOrFuncGuarded(m, r, okFn, errFn) ==
    LET fallback(k) ==
            LET d2 == DoWithPanic(errFn, Fresh)
            IN  IF d2.panicked THEN Fault(d2.payload, m, k)
                ELSE IF d2.ret # NIL THEN Done(Zero, m, k)
                ELSE Done(errFn.ret, m, k)
    IN  IF IsErr(r) THEN fallback(<<r.err>>)
        ELSE LET g == ResultGet(m, r)
                 run == Invoke(g, okFn)
                 d == DoWithPanic(run, Fresh)
             IN  IF d.panicked THEN Fault(d.payload, m, Args(g))
                 ELSE IF d.ret # NIL THEN fallback(Args(g) \o <<d.ret>>)
                 ELSE Done(run.ret, m, Args(g))

\* MapOrFunc(r, okFn, errFn): errFn is called directly, with the cause or
\* with the fault captured from okFn
ResultMapOrFunc(m, r, okFn, errFn) ==
    IF IsErr(r)
    THEN IF errFn.panicked THEN Fault(errFn.payload, m, <<r.err>>)
         ELSE Done(errFn.ret, m, <<r.err>>)
    ELSE LET g == ResultGet(m, r)
             run == Invoke(g, okFn)
             d == DoWithPanic(run, Fresh)
         IN  IF d.panicked THEN Fault(d.payload, m, Args(g))
             ELSE IF d.ret # NIL
                  THEN IF errFn.panicked
                       THEN Fault(errFn.payload, m, Args(g) \o <<d.ret>>)
                       ELSE Done(errFn.ret, m, Args(g) \o <<d.ret>>)
             ELSE Done(run.ret, m, Args(g))

(* The earlier Result, whose methods call f directly *)

ResultOr(m, r, b) == IF IsOk(r) THEN Done(r, m, <<>>) ELSE Done(b, m, <<>>)

ResultOrFuncEager(m, r, f) ==
    IF f.panicked THEN Fault(f.payload, m, <<r.err>>)
    ELSE IF IsOk(r) THEN Done(r, m, <<r.err>>)
    ELSE Called(BuiltResult(m, f.ret), <<r.err>>)

ResultOrFunc(m, r, f) ==
    IF IsOk(r) THEN Done(r, m, <<>>)
    ELSE IF f.panicked THEN Fault(f.payload, m, <<r.err>>)
    ELSE Called(BuiltResult(m, f.ret), <<r.err>>)

\* And(a, b), and RAnd of the single-package variant
AndReturnsB(m, a, b) == Done(b, m, <<>>)

And(m, a, b) == IF IsOk(a) THEN Done(b, m, <<>>) ELSE Err(m, a.err)

\* Do swapped: it calls f on an Err
ResultDoOnErr(m, r, f) ==
    IF ~IsOk(r)
    THEN IF f.panicked THEN Fault(f.payload, m, <<r.err>>) ELSE Done(r, m, <<r.err>>)
    ELSE Done(r, m, <<>>)

\* Result.Do: f(r.value()) when Ok, f called directly; returns r
ResultDo(m, r, f) ==
    IF IsOk(r)
    THEN LET g == Deref(m, r.val)
             run == Invoke(g, f)
         IN  IF run.panicked THEN Fault(run.payload, m, Args(g))
             ELSE Done(r, m, Args(g))
    ELSE Done(r, m, <<>>)

\* Result.ElseDo: f(r.err) when Err, f called directly; returns r
ResultElseDo(m, r, f) ==
    IF ~IsOk(r)
    THEN IF f.panicked THEN Fault(f.payload, m, <<r.err>>) ELSE Done(r, m, <<r.err>>)
    ELSE Done(r, m, <<>>)

----------------------------------------------------------------------------
(* The client.  It keeps MaxObjs containers, calls the library on them     *)
(* with callbacks of its own, keeps what is returned, and may hold and     *)
(* write through the pointer ToPtr gave it.                                *)

Slots == 1..MaxObjs

IsOption(c) == "exists" \in DOMAIN c
IsResult(c) == "err" \in DOMAIN c

Options(os) == {os[i] : i \in {j \in Slots : IsOption(os[j])}}
Results(os) == {os[i] : i \in {j \in Slots : IsResult(os[j])}}

\* errors the caller makes itself
UserErrs == {E1, E2}

\* errors the caller hands to MustGet inside a callback
MustErrs == {E1, ErrMust}

\* One run of a callback: it returns v; it panics with p; it calls
\* MustGet(x, e), of either util variant, and panics through it.
Plain(v) == [panicked |-> FALSE, payload |-> NIL, ret |-> v, must |-> NIL]
Panics(p) == [panicked |-> TRUE, payload |-> p, ret |-> NIL, must |-> NIL]
Must(e) ==
    LET g == MustGet(Zero, e, CbFresh)
    IN  [panicked |-> g.panicked, payload |-> g.payload, ret |-> NIL, must |-> e]
MustLatest(e) ==
    LET g == MustGetLatest(Zero, e, CbFresh)
    IN  [panicked |-> g.panicked, payload |-> g.payload, ret |-> NIL, must |-> e]

Faults ==
    {Panics(StrV("boom")), Panics(E1)}
        \cup {Must(e) : e \in MustErrs} \cup {MustLatest(e) : e \in MustErrs}

FnVoid == {Plain(NIL)} \cup Faults
FnVal == {Plain(v) : v \in Vals} \cup Faults
FnBool == {Plain(BoolV(b)) : b \in BOOLEAN} \cup Faults
FnErr == {Plain(e) : e \in {NIL, E2}} \cup Faults
FnOpt(os) ==
    {Plain([v |-> v, mk |-> "Val"]) : v \in Vals} \cup {Plain([mk |-> "Nul"])}
        \cup {Plain([c |-> c, mk |-> "obj"]) : c \in Options(os)} \cup Faults
FnRes(os) ==
    {Plain([v |-> v, mk |-> "Ok"]) : v \in Vals} \cup {Plain([e |-> E2, mk |-> "Err"])}
        \cup {Plain([c |-> c, mk |-> "obj"]) : c \in Results(os)} \cup Faults

\* the payload a returned container holds on heap m (NIL: none)
Held(m, c) ==
    IF (IsOption(c) \/ IsResult(c)) /\ c.val # 0 THEN m[c.val] ELSE NIL

\* The record of a single call: the operation, its receiver, its other
\* arguments, the run of its callback, and what came out: the outcome, the
\* returned container (or value) and the payload that container holds.
Call(op, recv, arg, f, out) ==
    [f |-> f,
     out |-> [panicked |-> out.panicked, payload |-> out.payload, ret |-> out.ret,
              calls |-> out.calls, held |-> Held(out.mem, out.ret),
              still |-> Held(out.mem, recv)],
     op |-> op, recv |-> recv, arg |-> arg]

\* the client is in a chain, or about to make its single call
Ready == chain \/ last.op = "init"

\* The client keeps a returned container in slot d and goes on with it.
\* (Along a chain the call itself is not recorded.)
Keep(op, recv, arg, f, out, d) ==
    /\ Ready
    /\ objs' = IF out.panicked \/ ~chain THEN objs ELSE [objs EXCEPT ![d] = out.ret]
    /\ UNCHANGED <<ptr, chain>>
    /\ mem' = IF chain THEN Collect(out.mem, objs', ptr') ELSE mem
    /\ last' = IF chain THEN [ret |-> NIL, op |-> "chained"]
               ELSE Call(op, recv, arg, f, out)

\* The client looks at what is returned and does not keep it.
Give(op, recv, arg, f, out) ==
    /\ Ready
    /\ UNCHANGED <<objs, ptr, chain>>
    /\ mem' = IF chain THEN Collect(out.mem, objs', ptr') ELSE mem
    /\ last' = IF chain THEN [ret |-> out.ret, op |-> "chained"]
               ELSE Call(op, recv, arg, f, out)

\* The client looks at a returned value, which is no container.  Nothing
\* the client holds changes: along a chain such a step is a stuttering
\* step once the chain has started, so it is taken as a first step only.
Look(op, recv, arg, f, out) ==
    /\ last.op = "init"
    /\ UNCHANGED <<mem, objs, ptr, chain>>
    /\ last' = IF chain THEN [ret |-> NIL, op |-> "chained"]
               ELSE Call(op, recv, arg, f, out)

\* operands the client may also build on the spot (they need no cell)
OptOperands(os) == Options(os) \cup {Nul(EmptyMem).ret}
ResOperands(os) == Results(os) \cup {Err(EmptyMem, e).ret : e \in UserErrs}

\* the number of cells that can still be allocated
FreeCells(m) == Cardinality({a \in Addrs : m[a] = NIL})

\* a chain starts with no container
Init ==
    /\ mem = EmptyMem
    /\ objs = [i \in Slots |-> NIL]
    /\ ptr = 0
    /\ chain = TRUE
    /\ last = [op |-> "init"]

\* How the client came by a container it starts with.
Seeds ==
    {[mk |-> "none"], [mk |-> "Nul"]}
        \cup {[v |-> v, mk |-> "Val"] : v \in Vals}
        \cup {[v |-> v, mk |-> "Ok"] : v \in Vals}
        \cup {[e |-> e, mk |-> "Err"] : e \in UserErrs}

Seeded(m, seed) ==
    CASE seed.mk = "none" -> Done(NIL, m, <<>>)
      [] seed.mk = "Nul" -> Nul(m)
      [] seed.mk = "Val" -> Val(m, seed.v)
      [] seed.mk = "Ok" -> Ok(m, seed.v)
      [] seed.mk = "Err" -> Err(m, seed.e)

\* the heap after the containers of slots 1..i were built from their seeds
RECURSIVE SeededMem(_, _)
SeededMem(seeds, i) ==
    IF i = 0 THEN EmptyMem ELSE Seeded(SeededMem(seeds, i - 1), seeds[i]).mem

\* single calls start from containers the constructors built
InitCall ==
    \E seeds \in [Slots -> Seeds] :
        /\ Cardinality({i \in Slots : seeds[i].mk \in {"Val", "Ok"}}) < MaxCells
        /\ objs = [i \in Slots |-> Seeded(SeededMem(seeds, i - 1), seeds[i]).ret]
        /\ mem = SeededMem(seeds, MaxObjs)
        /\ ptr = 0
        /\ chain = FALSE
        /\ last = [op |-> "init"]

(* Option *)

CallVal ==
    \E v \in Vals, d \in Slots :
        HasFree(mem) /\ Keep("Val", NIL, v, NIL, Val(mem, v), d)

CallNul == \E d \in Slots : Keep("Nul", NIL, NIL, NIL, Nul(mem), d)

CallOptionFrom ==
    \E v \in Vals, e \in {NIL} \cup UserErrs, d \in Slots :
        HasFree(mem) /\ Keep("Option.From", NIL, <<v, e>>, NIL, OptionFrom(mem, v, e), d)

CallFromPtr ==
    \E d \in Slots :
        HasFree(mem) /\ Keep("FromPtr", NIL, ptr, NIL, FromPtr(mem, ptr), d)

CallOptionFromFunc ==
    \E f \in FnVal, d \in Slots :
        HasFree(mem) /\ Keep("Option.FromFunc", NIL, NIL, f, OptionFromFunc(mem, f), d)

CallOptionTry ==
    \E o \in Options(objs), f \in FnVoid, d \in Slots :
        Keep("Option.Try", o, NIL, f, OptionTry(mem, o, f), d)

CallOptionCatch ==
    \E o \in Options(objs), f \in FnVoid, d \in Slots :
        Keep("Option.Catch", o, NIL, f, OptionCatch(mem, o, f), d)

CallOptionFinally ==
    \E o \in Options(objs), f \in FnVoid, d \in Slots :
        Keep("Option.Finally", o, NIL, f, OptionFinally(mem, o, f), d)

CallOptionFilter ==
    \E o \in Options(objs), f \in FnBool, d \in Slots :
        Keep("Option.Filter", o, NIL, f, OptionFilter(mem, o, f), d)

CallOptionElse ==
    \E o \in Options(objs), f \in FnOpt(objs), d \in Slots :
        HasFree(mem) /\ Keep("Option.Else", o, NIL, f, OptionElse(mem, o, f), d)

CallOptionElseVal ==
    \E o \in Options(objs), f \in FnVal, d \in Slots :
        HasFree(mem) /\ Keep("Option.ElseVal", o, NIL, f, OptionElseVal(mem, o, f), d)

CallOptionThen ==
    \E o \in Options(objs), f \in FnOpt(objs), d \in Slots :
        HasFree(mem) /\ Keep("Option.Then", o, NIL, f, OptionThen(mem, o, f), d)

CallOptionMap ==
    \E o \in Options(objs), f \in FnVal, d \in Slots :
        HasFree(mem) /\ Keep("Option.Map", o, NIL, f, OptionMap(mem, o, f), d)

(* Result *)

CallOk ==
    \E v \in Vals, d \in Slots :
        HasFree(mem) /\ Keep("Ok", NIL, v, NIL, Ok(mem, v), d)

CallErr ==
    \E e \in {NIL} \cup UserErrs, d \in Slots :
        Keep("Err", NIL, e, NIL, Err(mem, e), d)

CallResultFrom ==
    \E v \in Vals, e \in {NIL} \cup UserErrs, d \in Slots :
        HasFree(mem) /\ Keep("Result.From", NIL, <<v, e>>, NIL, ResultFrom(mem, v, e), d)

CallFromOption ==
    \E o \in Options(objs), e \in {NIL} \cup UserErrs, d \in Slots :
        HasFree(mem) /\ Keep("FromOption", o, e, NIL, FromOption(mem, o, e), d)

CallResultFromFunc ==
    \E f \in FnVal, d \in Slots :
        HasFree(mem) /\ Keep("Result.FromFunc", NIL, NIL, f, ResultFromFunc(mem, f), d)

CallResultVal ==
    \E r \in Results(objs), d \in Slots :
        HasFree(mem) /\ Keep("Result.Val", r, NIL, NIL, ResultVal(mem, r), d)

\* the client's slots hold containers of ints: the Option[error] is not kept
CallResultErr ==
    \E r \in Results(objs) :
        HasFree(mem) /\ Give("Result.Err", r, NIL, NIL, ResultErr(mem, r))

CallResultTry ==
    \E r \in Results(objs), f \in FnVoid, d \in Slots :
        Keep("Result.Try", r, NIL, f, ResultTry(mem, r, f), d)

CallResultCatch ==
    \E r \in Results(objs), f \in FnVoid, d \in Slots :
        Keep("Result.Catch", r, NIL, f, ResultCatch(mem, r, f), d)

CallResultFinally ==
    \E r \in Results(objs), f \in FnVoid, d \in Slots :
        Keep("Result.Finally", r, NIL, f, ResultFinally(mem, r, f), d)

CallResultElse ==
    \E r \in Results(objs), f \in FnRes(objs), d \in Slots :
        HasFree(mem) /\ Keep("Result.Else", r, NIL, f, ResultElse(mem, r, f), d)

CallResultElseMap ==
    \E r \in Results(objs), f \in FnVal, d \in Slots :
        HasFree(mem) /\ Keep("Result.ElseMap", r, NIL, f, ResultElseMap(mem, r, f), d)

CallResultThen ==
    \E r \in Results(objs), f \in FnRes(objs), d \in Slots :
        HasFree(mem) /\ Keep("Result.Then", r, NIL, f, ResultThen(mem, r, f), d)

CallResultMap ==
    \E r \in Results(objs), f \in FnVal, d \in Slots :
        HasFree(mem) /\ Keep("Result.Map", r, NIL, f, ResultMap(mem, r, f), d)

CallResultMapErr ==
    \E r \in Results(objs), f \in FnErr, d \in Slots :
        Keep("Result.MapErr", r, NIL, f, ResultMapErr(mem, r, f), d)

CallResultMapErrSafe ==
    \E r \in Results(objs), f \in FnErr, d \in Slots :
        Keep("Result.MapErrSafe", r, NIL, f, ResultMapErrSafe(mem, r, f), d)

CallResultCatchSafe ==
    \E r \in Results(objs), f \in FnVoid, d \in Slots :
        Keep("Result.CatchSafe", r, NIL, f, ResultCatchSafe(mem, r, f), d)

CallResultFinallySafe ==
    \E r \in Results(objs), f \in FnVoid, d \in Slots :
        Keep("Result.FinallySafe", r, NIL, f, ResultFinallySafe(mem, r, f), d)

CallResultElseSafe ==
    \E r \in Results(objs), f \in FnRes(objs), d \in Slots :
        HasFree(mem) /\ Keep("Result.ElseSafe", r, NIL, f, ResultElseSafe(mem, r, f), d)

(* Pointers *)

\* p := c.ToPtr()
CallToPtr ==
    \E c \in Options(objs) \cup Results(objs) :
        LET out == IF IsOption(c) THEN OptionToPtr(mem, c) ELSE ResultToPtr(mem, c)
        IN  /\ ptr' = out.ret
            /\ UNCHANGED <<objs, chain>>
            /\ mem' = Collect(out.mem, objs', ptr')
            /\ last' = IF chain THEN [ret |-> NIL, op |-> "chained"]
                       ELSE [f |-> NIL,
                             out |-> [panicked |-> FALSE, payload |-> NIL,
                                      ret |-> out.ret, calls |-> <<>>,
                                      held |-> IF out.ret = 0 THEN NIL
                                               ELSE mem[out.ret]],
                             op |-> "ToPtr", recv |-> c, arg |-> NIL]

\* *p = v
WritePtr ==
    \E v \in Vals :
        /\ ptr # 0
        /\ mem' = [mem EXCEPT ![ptr] = v]
        /\ last' = IF chain THEN [ret |-> NIL, op |-> "chained"]
                   ELSE Call("WritePtr", NIL, v, NIL, Done(NIL, mem', <<>>))
        /\ UNCHANGED <<objs, ptr, chain>>

(* Extraction and queries *)

CallOptionGet ==
    \E o \in OptOperands(objs) : Look("Option.Get", o, NIL, NIL, OptionGet(mem, o))

CallOptionGetOr ==
    \E o \in OptOperands(objs), v \in Vals :
        Look("Option.GetOr", o, v, NIL, OptionGetOr(mem, o, v))

CallOptionGetOrFunc ==
    \E o \in OptOperands(objs), f \in FnVal :
        Look("Option.GetOrFunc", o, NIL, f, OptionGetOrFunc(mem, o, f))

CallOptionGetOrZero ==
    \E o \in OptOperands(objs) :
        Look("Option.GetOrZero", o, NIL, NIL, OptionGetOrZero(mem, o))

CallOptionHasFunc ==
    \E o \in OptOperands(objs), f \in FnBool :
        Look("Option.HasFunc", o, NIL, f, OptionHasFunc(mem, o, f))

CallOptionMapOr ==
    \E o \in OptOperands(objs), f \in FnVal, v \in Vals :
        Look("Option.MapOr", o, v, f, OptionMapOr(mem, o, f, v))

\* arg is the run of defaultFn
CallOptionMapOrFunc ==
    \E o \in OptOperands(objs), okFn \in FnVal, defaultFn \in FnVal :
        Look("Option.MapOrFunc", o, defaultFn, okFn,
             OptionMapOrFunc(mem, o, okFn, defaultFn))

CallResultGet ==
    \E r \in ResOperands(objs) : Look("Result.Get", r, NIL, NIL, ResultGet(mem, r))

CallResultGetErr ==
    \E r \in ResOperands(objs) : Look("Result.GetErr", r, NIL, NIL, ResultGetErr(mem, r))

CallResultGetOr ==
    \E r \in ResOperands(objs), v \in Vals :
        /\ IsOk(r) => HasFree(mem)
        /\ Look("Result.GetOr", r, v, NIL, ResultGetOr(mem, r, v))

CallResultGetOrZero ==
    \E r \in ResOperands(objs) :
        /\ IsOk(r) => HasFree(mem)
        /\ Look("Result.GetOrZero", r, NIL, NIL, ResultGetOrZero(mem, r))

CallResultGetOrFunc ==
    \E r \in ResOperands(objs), f \in FnVal :
        Look("Result.GetOrFunc", r, NIL, f, ResultGetOrFunc(mem, r, f))

CallResultHasFunc ==
    \E r \in ResOperands(objs), f \in FnBool :
        Look("Result.HasFunc", r, NIL, f, ResultHasFunc(mem, r, f))

CallResultHasErrFunc ==
    \E r \in ResOperands(objs), f \in FnBool :
        Look("Result.HasErrFunc", r, NIL, f, ResultHasErrFunc(mem, r, f))

CallResultMapOr ==
    \E r \in ResOperands(objs), f \in FnVal, v \in Vals :
        Look("Result.MapOr", r, v, f, ResultMapOr(mem, r, f, v))

\* arg is the run of errFn
CallResultMapOrFunc ==
    \E r \in ResOperands(objs), okFn \in FnVal, errFn \in FnVal :
        Look("Result.MapOrFunc", r, errFn, okFn, ResultMapOrFunc(mem, r, okFn, errFn))

(* The earlier Option and Result *)

CallOptionFilterDirect ==
    \E o \in OptOperands(objs), f \in FnBool, d \in Slots :
        Keep("Option.FilterDirect", o, NIL, f, OptionFilterDirect(mem, o, f), d)

CallOptionOr ==
    \E o \in OptOperands(objs), b \in OptOperands(objs), d \in Slots :
        Keep("Option.Or", o, b, NIL, OptionOr(mem, o, b), d)

CallOptionOrFunc ==
    \E o \in OptOperands(objs), f \in FnOpt(objs), d \in Slots :
        HasFree(mem) /\ Keep("Option.OrFunc", o, NIL, f, OptionOrFunc(mem, o, f), d)

CallOptionXor ==
    \E o \in OptOperands(objs), b \in OptOperands(objs), d \in Slots :
        Keep("Option.Xor", o, b, NIL, OptionXor(mem, o, b), d)

CallResultOr ==
    \E r \in ResOperands(objs), b \in ResOperands(objs), d \in Slots :
        Keep("Result.Or", r, b, NIL, ResultOr(mem, r, b), d)

CallResultOrFunc ==
    \E r \in ResOperands(objs), f \in FnRes(objs), d \in Slots :
        HasFree(mem) /\ Keep("Result.OrFunc", r, NIL, f, ResultOrFunc(mem, r, f), d)

CallAnd ==
    \E a \in ResOperands(objs), b \in ResOperands(objs), d \in Slots :
        Keep("And", a, b, NIL, And(mem, a, b), d)

\* r.Do(f).ElseDo(g): ElseDo runs on what Do returned, unless Do panicked.
\* arg is the run of g; the invocations of both callbacks are recorded.
CallDoElseDo ==
    \E r \in ResOperands(objs), f \in FnVoid, g \in FnVoid, d \in Slots :
        LET first == ResultDo(mem, r, f)
            second == ResultElseDo(first.mem, first.ret, g)
        IN  Keep("Result.Do.ElseDo", r, g, f,
                 IF first.panicked THEN first
                 ELSE Called(second, first.calls \o second.calls), d)

\* the steps of a chain r.Try(f).ThenT(g).MapT(h)..., each with the run of
\* its callback
ChainSteps(os) ==
    {[f |-> f, op |-> "Try"] : f \in FnVoid}
        \cup {[f |-> f, op |-> "Then"] : f \in FnRes(os)}
        \cup {[f |-> f, op |-> "Map"] : f \in FnVal}

\* what the chain gives from step i on, cur being what came out so far; a
\* panic ends the chain, and the invocations of all callbacks are recorded
RECURSIVE ChainFrom(_, _, _)
ChainFrom(cur, steps, i) ==
    IF i > Len(steps) \/ cur.panicked THEN cur
    ELSE LET s == steps[i]
             nxt == CASE s.op = "Try" -> ResultTry(cur.mem, cur.ret, s.f)
                      [] s.op = "Then" -> ResultThen(cur.mem, cur.ret, s.f)
                      [] s.op = "Map" -> ResultMap(cur.mem, cur.ret, s.f)
         IN  ChainFrom(Called(nxt, cur.calls \o nxt.calls), steps, i + 1)

\* Err(e).Try(..).ThenT(..).MapT(..)...: a chain of Try, Then (ThenT), Map
\* (MapT) steps on an Err built on the spot by a client that holds nothing.
\* arg is the sequence of steps.
CallErrChain ==
    \E e \in UserErrs, n \in 1..MaxChain :
        \E steps \in [1..n -> ChainSteps(objs)] :
            /\ \A i \in Slots : objs[i] = NIL
            /\ Look("ErrChain", Err(mem, e).ret, steps, NIL,
                    ChainFrom(Err(mem, e), steps, 1))

\* Ok(v).Try(f).Catch(g): Catch runs on what Try returned, unless Try
\* panicked.  arg is the run of g and v; the invocations of both callbacks
\* are recorded in order.
CallTryCatch ==
    \E v \in Vals, f \in FnVoid, g \in FnVoid, d \in Slots :
        /\ HasFree(mem)
        /\ LET made == Ok(mem, v)
               first == ResultTry(made.mem, made.ret, f)
               second == ResultCatch(first.mem, first.ret, g)
           IN  Keep("Ok.Try.Catch", made.ret, <<g, v>>, f,
                    IF first.panicked THEN first
                    ELSE Called(second, first.calls \o second.calls), d)

\* The round trip FromOption(r.Val(), e), on a Result the client holds or
\* on Ok(v) built on the spot; a temporary that is no longer referred to
\* is reclaimed between the two calls.  arg records e and what r held.
CallRoundTrip ==
    \E pick \in ResOperands(objs) \cup {NIL}, v \in Vals, e \in UserErrs :
        /\ (pick = NIL \/ IsOk(pick)) => FreeCells(mem) >= 2
        /\ LET made == IF pick = NIL THEN Ok(mem, v) ELSE Done(pick, mem, <<>>)
               r == made.ret
               o == ResultVal(made.mem, r)
               live == Roots(objs, ptr) \cup {o.ret.val}
               m2 == [a \in Addrs |-> IF a \in live THEN o.mem[a] ELSE NIL]
           IN  Look("RoundTrip", r, <<e, Held(made.mem, r)>>, NIL,
                    FromOption(m2, o.ret, e))

(* The executor and the helpers, called directly *)

\* payloads a callback handed straight to the executor panics with
ExecPayloads ==
    {IntV(7), StrV("7"), StrV("boom"), E1, E2, W1, ErrMust,
     WrapMust(E1, CbFresh), WrapMust(StrV("boom"), CbFresh),
     MustGet(Zero, E1, CbFresh).payload, MustGet(Zero, W1, CbFresh).payload}

ExecRuns == {Plain(NIL)} \cup {Panics(p) : p \in ExecPayloads}

\* expected lists handed to the executor
ErrLists ==
    {<<>>, <<ErrMust>>, <<E1>>, <<E2>>, <<E1, E2>>, <<E2, ErrMust>>, <<NIL>>, <<W1>>}

\* a call that involves no container
Exec(op, arg, f, out) ==
    /\ Ready
    /\ UNCHANGED <<mem, objs, ptr, chain>>
    /\ last' = IF chain THEN [ret |-> NIL, op |-> "chained"]
               ELSE [f |-> f,
                     out |-> [panicked |-> out.panicked, payload |-> out.payload,
                              ret |-> out.ret, calls |-> <<>>, held |-> NIL],
                     op |-> op, recv |-> NIL, arg |-> arg]

CallDoSafe ==
    \E f \in ExecRuns, errs \in ErrLists : Exec("DoSafe", errs, f, DoSafe(f, errs, Fresh))

CallSafeDo ==
    \E f \in ExecRuns, errs \in ErrLists : Exec("SafeDo", errs, f, SafeDo(f, errs, Fresh))

CallCommonDoSafe ==
    \E f \in ExecRuns : Exec("CommonDoSafe", <<>>, f, CommonDoSafe(f, Fresh))

CallDoWithPanic ==
    \E f \in ExecRuns : Exec("DoWithPanic", <<ErrMust>>, f, DoWithPanic(f, Fresh))

\* DoSafe(func() { err = DoSafe(f, inner...) }, outer...), by a client that
\* holds nothing: the closure panics iff the inner executor re-panics.
\* arg is the two lists and what the inner executor gave.
CallNestedDoSafe ==
    \E f \in ExecRuns, inner \in ErrLists, outer \in ErrLists :
        LET got == DoSafe(f, inner, Fresh)
            run == IF got.panicked THEN Panic(got.payload) ELSE Return(NIL)
        IN  /\ \A i \in Slots : objs[i] = NIL
            /\ Exec("Nested", <<inner, outer, got>>, f, DoSafe(run, outer, Fresh + 1))

CallMustGet ==
    \E v \in Vals, e \in {NIL, E1, E2, W1, ErrMust, WrapMust(E1, CbFresh)} :
        Exec("MustGet", <<v, e>>, NIL, MustGet(v, e, Fresh))

CallMustGetLatest ==
    \E v \in Vals, e \in {NIL, E1, E2, W1, ErrMust, WrapMust(E1, CbFresh)} :
        Exec("MustGetLatest", <<v, e>>, NIL, MustGetLatest(v, e, Fresh))

\* WrapMust(WrapMust(v)) in the latest util; arg is v and WrapMust(v)
CallWrapMustLatest ==
    \E v \in ExecPayloads :
        LET once == WrapMustLatest(v, Fresh)
        IN  Exec("WrapMustLatest", <<v, once>>, NIL,
                 Return(WrapMustLatest(once, Fresh + 2)))

CallMustNil ==
    \E e \in {NIL, E1, E2, W1, ErrMust, WrapMust(E1, CbFresh)} :
        Exec("MustNil", <<e>>, NIL, MustNil(e, Fresh))

CallWrapPanic ==
    \E f \in ExecRuns : Exec("WrapPanic", NIL, f, WrapPanic(f, Fresh))

CallWrapPanicLatest ==
    \E f \in ExecRuns : Exec("WrapPanicLatest", NIL, f, WrapPanicLatest(f, Fresh))

CallWrapPanicGet ==
    \E f \in ExecRuns \cup {Plain(v) : v \in Vals} :
        Exec("WrapPanicGet", NIL, f, WrapPanicGet(f, Fresh))

CallWrapPanicGetLatest ==
    \E f \in ExecRuns \cup {Plain(v) : v \in Vals} :
        Exec("WrapPanicGetLatest", NIL, f, WrapPanicGetLatest(f, Fresh))

\* CatchMustPanic(func() { WrapPanic(f) }), with the WrapPanic of either util
CallCatchMustPanic ==
    \E f \in ExecRuns :
        \E inner \in {WrapPanic(f, Fresh), WrapPanicLatest(f, Fresh)} :
            Exec("CatchMustPanic", NIL, f, CatchMustPanic(inner, Fresh + 3))

Next ==
    \/ CallOptionGet \/ CallOptionGetOr \/ CallOptionGetOrFunc \/ CallOptionGetOrZero
    \/ CallOptionHasFunc \/ CallOptionMapOr \/ CallOptionMapOrFunc
    \/ CallResultGet \/ CallResultGetErr \/ CallResultGetOr \/ CallResultGetOrZero
    \/ CallResultGetOrFunc \/ CallResultHasFunc \/ CallResultHasErrFunc
    \/ CallResultMapOr \/ CallResultMapOrFunc
    \/ CallOptionFilterDirect \/ CallOptionOr \/ CallOptionOrFunc \/ CallOptionXor
    \/ CallResultOr \/ CallResultOrFunc \/ CallAnd \/ CallDoElseDo \/ CallRoundTrip
    \/ CallErrChain \/ CallTryCatch
    \/ CallDoSafe \/ CallSafeDo \/ CallCommonDoSafe \/ CallDoWithPanic
    \/ CallMustGet \/ CallMustGetLatest
    \/ CallWrapPanic \/ CallWrapPanicLatest \/ CallWrapPanicGet \/ CallWrapPanicGetLatest
    \/ CallCatchMustPanic \/ CallNestedDoSafe
    \/ CallWrapMustLatest \/ CallMustNil
    \/ CallVal \/ CallNul \/ CallOptionFrom \/ CallFromPtr \/ CallOptionFromFunc
    \/ CallOptionTry \/ CallOptionCatch \/ CallOptionFinally \/ CallOptionFilter
    \/ CallOptionElse \/ CallOptionElseVal \/ CallOptionThen \/ CallOptionMap
    \/ CallOk \/ CallErr \/ CallResultFrom \/ CallFromOption \/ CallResultFromFunc
    \/ CallResultVal \/ CallResultErr
    \/ CallResultTry \/ CallResultCatch \/ CallResultFinally
    \/ CallResultElse \/ CallResultElseMap \/ CallResultThen \/ CallResultMap
    \/ CallResultMapErr \/ CallResultMapErrSafe
    \/ CallResultCatchSafe \/ CallResultFinallySafe \/ CallResultElseSafe
    \/ CallToPtr \/ WritePtr

Spec == Init /\ [][Next]_vars

SpecCall == InitCall /\ [][Next]_vars

----------------------------------------------------------------------------
(* Properties of a single call (SpecCall)                                  *)

ExecutorOps == {"DoSafe", "SafeDo"}

\* the callback's panic payload is an error matching an entry of the list
Matches(p, errs) == IsError(p) /\ \E i \in 1..Len(errs) : Is(p, errs[i])

\* C1: the executor with a non-empty expected list, whose callback panics
\* with an error r that errors.Is one of the entries (r may only wrap the
\* entry), does not re-panic and returns exactly r, not the entry.
C1_MatchedFaultReturned ==
    (/\ last.op \in ExecutorOps
     /\ Len(last.arg) > 0
     /\ last.f.panicked
     /\ Matches(last.f.payload, last.arg))
        => ~last.out.panicked /\ last.out.ret = last.f.payload

\* the callback panicked with W1, which wraps the expected E1, and W1 came back
C1_Witness ==
    /\ last.op = "DoSafe"
    /\ last.arg = <<E1>>
    /\ last.f.panicked /\ last.f.payload = W1
    /\ ~last.out.panicked /\ last.out.ret = W1

\* C2: the executor with a non-empty expected list, whose callback panics
\* with a payload that is not an error or with an error matching no entry,
\* returns nothing and re-raises that same payload unchanged.
C2_UnmatchedFaultReraised ==
    (/\ last.op \in ExecutorOps
     /\ Len(last.arg) > 0
     /\ last.f.panicked
     /\ ~Matches(last.f.payload, last.arg))
        => /\ last.out.panicked
           /\ last.out.payload = last.f.payload
           /\ last.out.ret = NIL

\* a string payload went through an executor expecting E1
C2_Witness ==
    /\ last.op = "SafeDo"
    /\ last.arg = <<E1>>
    /\ last.f.panicked /\ last.f.payload = StrV("boom")
    /\ last.out.panicked /\ last.out.payload = StrV("boom")

\* the errors that exist before the executor runs
KnownErrs == {E1, E2, W1, ErrMust}

\* C3: the executor with an empty expected list never re-panics; it returns
\* no error iff the callback completed normally, the payload itself when the
\* payload is an error, and otherwise a new error whose message is the
\* formatted payload.
C3_EmptyListCapturesAll ==
    (last.op \in ExecutorOps \cup {"CommonDoSafe"} /\ Len(last.arg) = 0)
        => /\ ~last.out.panicked
           /\ (last.out.ret = NIL) <=> ~last.f.panicked
           /\ (last.f.panicked /\ IsError(last.f.payload))
                 => last.out.ret = last.f.payload
           /\ (last.f.panicked /\ ~IsError(last.f.payload))
                 => /\ IsError(last.out.ret)
                    /\ ErrorText(last.out.ret) = Format(last.f.payload)
                    /\ \A e \in KnownErrs : ~Is(last.out.ret, e)

\* an error payload (one that wraps another) was passed through as it is
C3_Witness ==
    /\ last.op = "DoSafe"
    /\ last.arg = <<>>
    /\ last.f.panicked /\ last.f.payload = W1
    /\ ~last.out.panicked /\ last.out.ret = W1

\* the callback of the Result chain combinator of the last call was invoked
ChainCallbackRan ==
    \/ last.op = "Result.Try" /\ IsOk(last.recv)
    \/ last.op \in {"Result.Catch", "Result.Else", "Result.ElseMap"} /\ IsErr(last.recv)
    \/ last.op = "Result.Finally"

C5_FinallyNeverPanics ==
    (last.op \in {"Option.Finally", "Result.Finally"})
        => /\ Len(last.out.calls) = 1
           /\ ~last.out.panicked
           /\ ~last.f.panicked => last.out.ret = last.recv
           /\ (last.f.panicked /\ last.op = "Option.Finally")
                 => IsOption(last.out.ret) /\ IsNul(last.out.ret)
           /\ (last.f.panicked /\ last.op = "Result.Finally")
                 => IsResult(last.out.ret) /\ IsErr(last.out.ret)

MustGetOps == {"MustGet", "MustGetLatest"}

\* C6: MustGet(v, err) returns v without faulting when err is nil; when err
\* is not nil it never returns and panics with an error p such that both
\* errors.Is(p, ErrMust) and errors.Is(p, err).
C6_MustGet ==
    (last.op \in MustGetOps)
        => IF last.arg[2] = NIL
           THEN ~last.out.panicked /\ last.out.ret = last.arg[1]
           ELSE /\ last.out.panicked
                /\ last.out.ret = NIL
                /\ IsError(last.out.payload)
                /\ Is(last.out.payload, ErrMust)
                /\ Is(last.out.payload, last.arg[2])

\* MustGet was given the caller's error E1 and panicked
C6_Witness ==
    /\ last.op = "MustGet"
    /\ last.arg[2] = E1
    /\ last.out.panicked
    /\ Is(last.out.payload, E1)

MustCatchingOps ==
    {"Result.Try", "Result.Else", "Result.ElseMap", "Result.Then", "Result.Map",
     "Result.FromFunc"}

\* C7: when the callback of Result.Try, Else, ElseMap, Then, Map or of
\* FromFunc is invoked and calls MustGet(x, e) with e not nil, no panic
\* reaches the caller and the call returns an Err r with r.HasErr(e) and
\* r.HasErr(ErrMust).
C7_MustFaultCaught ==
    (/\ last.op \in MustCatchingOps
     /\ Len(last.out.calls) > 0
     /\ last.f.must # NIL)
        => /\ ~last.out.panicked
           /\ IsResult(last.out.ret)
           /\ HasErr(last.out.ret, last.f.must)
           /\ HasErr(last.out.ret, ErrMust)

\* the callback of Map called MustGet with E1
C7_Witness ==
    /\ last.op = "Result.Map"
    /\ Len(last.out.calls) > 0
    /\ last.f.must = E1
    /\ IsResult(last.out.ret) /\ HasErr(last.out.ret, E1)

\* the operations that return a Result
ResultOps ==
    {"Ok", "Err", "Result.From", "FromOption", "Result.FromFunc", "Result.Try",
     "Result.Catch", "Result.Finally", "Result.Else", "Result.ElseMap",
     "Result.Then", "Result.Map", "Result.MapErr", "Result.MapErrSafe"}

\* a Result built in the Err state from a nil cause
NilCause(c) == IsResult(c) /\ c.val = 0 /\ c.err = NIL

\* C8: no call yields a Result built as an Err from a nil cause: Err(nil)
\* faults, so do FromOption(absent, nil) and the MapErr whose callback
\* returns nil; From(v, nil) is Ok(v) and From(v, e) is Err(e).
C8_NoNilCause ==
    /\ (last.op \in ResultOps /\ ~last.out.panicked) => ~NilCause(last.out.ret)
    /\ (last.op = "Err" /\ last.arg = NIL) => last.out.panicked
    /\ (last.op = "FromOption" /\ IsNul(last.recv) /\ last.arg = NIL)
          => last.out.panicked
    /\ (last.op = "Result.MapErr" /\ IsErr(last.recv) /\ ~last.f.panicked
            /\ last.f.ret = NIL)
          => last.out.panicked
    /\ (last.op = "Result.MapErrSafe" /\ IsErr(last.recv) /\ ~last.f.panicked
            /\ last.f.ret = NIL)
          => IsResult(last.out.ret) /\ IsErr(last.out.ret)
    /\ (last.op = "Result.From" /\ last.arg[2] = NIL)
          => /\ ~last.out.panicked
             /\ IsResult(last.out.ret) /\ IsOk(last.out.ret)
             /\ last.out.held = last.arg[1]
    /\ (last.op = "Result.From" /\ last.arg[2] # NIL)
          => /\ ~last.out.panicked
             /\ IsResult(last.out.ret) /\ IsErr(last.out.ret)
             /\ last.out.ret.err = last.arg[2]

\* Err(nil) was called and faulted
C8_Witness == last.op = "Err" /\ last.arg = NIL /\ last.out.panicked

----------------------------------------------------------------------------
(* Properties of chains of calls (Spec)                                    *)

\* the representation of a container on heap m
Shaped(c) ==
    /\ IsOption(c) => ((c.val # 0) <=> c.exists)
    /\ IsResult(c) => ((c.val # 0) # (c.err # NIL))

\* a kept container, whose payload cell is live on heap m
WellFormed(m, c) == Shaped(c) /\ (c.val # 0 => m[c.val] # NIL)

\* C9: under any sequence of operations every Option returned has a payload
\* pointer iff exists is true and every Result returned has exactly one of
\* val and err, whether or not callbacks faulted on the way.
C9_Representation ==
    /\ \A i \in Slots : objs[i] # NIL => WellFormed(mem, objs[i])
    /\ (last.op = "chained" /\ last.ret # NIL) => Shaped(last.ret)

\* the chain holds an Err made by a combinator from a fault of its callback
C9_Witness ==
    /\ chain
    /\ \E i \in Slots :
          /\ objs[i] # NIL /\ IsResult(objs[i])
          /\ HasErr(objs[i], ErrMust)

\* C10: a container is immutable: no operation on it or on something
\* obtained from it, the pointer ToPtr returned included, changes its tag
\* or the value its Get() returns.
C10_Immutable ==
    [][\A i \in Slots :
          (objs[i] # NIL /\ objs'[i] = objs[i])
              => Held(mem', objs[i]) = Held(mem, objs[i])]_vars

----------------------------------------------------------------------------
(* Faults of callbacks, extraction (SpecCall)                              *)

\* the callback f of the last call was run by the library
CallbackRan ==
    /\ last.op # "init"
    /\ last.f # NIL
    /\ \/ last.op \in ExecutorOps \cup {"CommonDoSafe", "DoWithPanic"}
       \/ last.op = "Result.MapOrFunc" /\ IsOk(last.recv)
       \/ last.op = "Option.MapOrFunc" /\ IsVal(last.recv)
       \/ last.op \notin {"Result.MapOrFunc", "Option.MapOrFunc"}
             /\ Len(last.out.calls) > 0

\* C11: no error is silently dropped: when a callback the library runs
\* faults, the fault is re-raised to the caller, or it is (reachable from)
\* the error or the Err the operation returns, or it is handed to the
\* caller's fallback function.
C11_NoFaultDropped ==
    (CallbackRan /\ last.f.panicked)
        => \/ last.out.panicked /\ last.out.payload = last.f.payload
           \/ /\ ~last.out.panicked
              /\ IsError(last.out.ret)
              /\ Is(last.out.ret, ToError(last.f.payload, Fresh))
           \/ /\ ~last.out.panicked
              /\ IsResult(last.out.ret) /\ IsErr(last.out.ret)
              /\ Is(last.out.ret.err, ToError(last.f.payload, Fresh))
           \/ /\ last.op = "Result.MapOrFunc"
              /\ \E i \in 1..Len(last.out.calls) : last.out.calls[i] = last.f.payload

\* the Result operations that invoke a callback of the caller
ResultCallbackOps ==
    {"Result.Try", "Result.Catch", "Result.Finally", "Result.Else", "Result.ElseMap",
     "Result.Then", "Result.Map", "Result.MapOr", "Result.MapOrFunc",
     "Result.GetOrFunc", "Result.HasFunc", "Result.HasErrFunc"}

\* C12: every Result operation that invokes a callback does so through the
\* executor: a callback panic with an error matching ErrMust never reaches
\* the caller of Try, Catch, Finally, Else, ElseMap, Then, Map, MapOr,
\* MapOrFunc (either callback), GetOrFunc, HasFunc, HasErrFunc.
C12_AllThroughExecutor ==
    (last.op \in ResultCallbackOps)
        => ~(last.out.panicked /\ Matches(last.out.payload, <<ErrMust>>))

\* C13: Option.Get returns the payload of a present Option and panics iff
\* it is absent; Result.Get returns the value of an Ok and panics iff the
\* Result is Err; Result.GetErr returns the cause of an Err and panics iff
\* the Result is Ok.
C13_ExtractionFaultsOnWrongTag ==
    /\ (last.op = "Option.Get")
          => IF IsVal(last.recv)
             THEN ~last.out.panicked /\ last.out.ret = Held(mem, last.recv)
             ELSE last.out.panicked
    /\ (last.op = "Result.Get")
          => IF IsOk(last.recv)
             THEN ~last.out.panicked /\ last.out.ret = Held(mem, last.recv)
             ELSE last.out.panicked
    /\ (last.op = "Result.GetErr")
          => IF IsErr(last.recv)
             THEN ~last.out.panicked /\ last.out.ret = last.recv.err
             ELSE last.out.panicked

\* GetErr was called on an Ok and panicked
C13_Witness ==
    /\ last.op = "Result.GetErr"
    /\ IsOk(last.recv)
    /\ last.out.panicked

GetOrOps == {"Option.GetOr", "Result.GetOr"}
GetOrFuncOps == {"Option.GetOrFunc", "Result.GetOrFunc"}
GetOrZeroOps == {"Option.GetOrZero", "Result.GetOrZero"}

\* the receiver of the last call is a present Option or an Ok Result
RecvPresent ==
    IF IsOption(last.recv) THEN IsVal(last.recv) ELSE IsOk(last.recv)

\* what GetOr, GetOrFunc, GetOrZero give on a present Option / an Ok Result
\* and, GetOr and GetOrZero, on an absent Option / an Err Result
GetOrTotal ==
    /\ (last.op \in GetOrOps \cup GetOrFuncOps \cup GetOrZeroOps /\ RecvPresent)
          => /\ ~last.out.panicked
             /\ last.out.ret = Held(mem, last.recv)
             /\ last.out.calls = <<>>
    /\ (last.op \in GetOrOps /\ ~RecvPresent)
          => ~last.out.panicked /\ last.out.ret = last.arg
    /\ (last.op \in GetOrZeroOps /\ ~RecvPresent)
          => ~last.out.panicked /\ last.out.ret = Zero

\* C14 (as stated): GetOr, GetOrFunc and GetOrZero never fault, on either
\* tag and for any argument; present / Ok gives the payload without
\* invoking the function, absent / Err gives the default, the function's
\* result, the zero value.
C14_GetOrNeverFaults ==
    /\ GetOrTotal
    /\ (last.op \in GetOrFuncOps /\ ~RecvPresent)
          => ~last.out.panicked /\ last.out.ret = last.f.ret

\* C14 (amended): GetOr and GetOrZero never fault; GetOrFunc never faults
\* on a present Option / an Ok Result and does not invoke the function; on
\* an absent Option / an Err Result it invokes the function exactly once
\* and returns its result, or panics with exactly the function's panic.
C14_GetOrFuncPropagates ==
    /\ GetOrTotal
    /\ (last.op \in GetOrFuncOps /\ ~RecvPresent)
          => /\ Len(last.out.calls) = 1
             /\ IF last.f.panicked
                THEN last.out.panicked /\ last.out.payload = last.f.payload
                ELSE ~last.out.panicked /\ last.out.ret = last.f.ret

\* GetOrFunc on an absent Option whose function panics
C14_Witness ==
    /\ last.op = "Option.GetOrFunc"
    /\ IsNul(last.recv)
    /\ last.f.panicked
    /\ last.out.panicked

\* C15: Map and Then on an absent Option / an Err Result never invoke the
\* function and return an absent Option / an Err with the receiver's cause.
C15_MapOverAbsent ==
    /\ (last.op \in {"Option.Map", "Option.Then"} /\ IsNul(last.recv))
          => /\ last.out.calls = <<>>
             /\ ~last.out.panicked
             /\ IsOption(last.out.ret) /\ IsNul(last.out.ret)
    /\ (last.op \in {"Result.Map", "Result.Then"} /\ IsErr(last.recv))
          => /\ last.out.calls = <<>>
             /\ ~last.out.panicked
             /\ IsResult(last.out.ret) /\ IsErr(last.out.ret)
             /\ last.out.ret.err = last.recv.err

\* Map on an Err, with a function that would have panicked
C15_Witness ==
    /\ last.op = "Result.Map"
    /\ IsErr(last.recv)
    /\ last.f.panicked
    /\ IsResult(last.out.ret) /\ last.out.ret.err = last.recv.err

FilterOps == {"Option.Filter", "Option.FilterDirect"}

\* C16: Filter(pred) on a present Option holding v invokes pred(v) and
\* returns a present Option holding v iff pred(v) is true, an absent one
\* otherwise; on an absent Option it returns absent without invoking pred;
\* the receiver is not modified.
C16_Filter ==
    (last.op \in FilterOps)
        => /\ last.out.still = Held(mem, last.recv)
           /\ IsNul(last.recv)
                 => /\ last.out.calls = <<>>
                    /\ ~last.out.panicked
                    /\ IsOption(last.out.ret) /\ IsNul(last.out.ret)
           /\ (IsVal(last.recv) /\ ~last.f.panicked)
                 => /\ last.out.calls = <<Held(mem, last.recv)>>
                    /\ ~last.out.panicked
                    /\ IsOption(last.out.ret)
                    /\ IsVal(last.out.ret) <=> last.f.ret = BoolV(TRUE)
                    /\ IsVal(last.out.ret) => last.out.held = Held(mem, last.recv)

\* a present Option was filtered out
C16_Witness ==
    /\ last.op = "Option.Filter"
    /\ IsVal(last.recv)
    /\ last.f = Plain(BoolV(FALSE))
    /\ IsOption(last.out.ret) /\ IsNul(last.out.ret)

\* C17: a.Xor(b) is a when only a is present, b when only b is present,
\* absent when both or neither are; a.Xor(b) and b.Xor(a) are equal.
C17_Xor ==
    (last.op = "Option.Xor")
        => /\ ~last.out.panicked
           /\ (IsVal(last.recv) /\ IsNul(last.arg)) => last.out.ret = last.recv
           /\ (IsNul(last.recv) /\ IsVal(last.arg)) => last.out.ret = last.arg
           /\ (IsVal(last.recv) <=> IsVal(last.arg)) => IsNul(last.out.ret)
           /\ last.out.ret = OptionXor(mem, last.arg, last.recv).ret

\* both operands were present
C17_Witness ==
    /\ last.op = "Option.Xor"
    /\ IsVal(last.recv) /\ IsVal(last.arg)
    /\ IsNul(last.out.ret)

\* C18: And(a, b) is b, unchanged, when a is Ok, and an Err carrying a's
\* cause when a is Err, whatever b is.
C18_And ==
    (last.op = "And")
        => IF IsOk(last.recv)
           THEN ~last.out.panicked /\ last.out.ret = last.arg
           ELSE /\ ~last.out.panicked
                /\ IsResult(last.out.ret) /\ IsErr(last.out.ret)
                /\ last.out.ret.err = last.recv.err

\* And(Err(e1), Err(e2)) carries e1
C18_Witness ==
    /\ last.op = "And"
    /\ IsErr(last.recv) /\ IsErr(last.arg)
    /\ last.recv.err # last.arg.err
    /\ last.out.ret.err = last.recv.err

\* C19: for every Result r and error e that is not nil, FromOption(r.Val(), e)
\* is an Ok with r's value when r is Ok, and an Err whose cause is exactly
\* e, not r's cause, when r is Err.
C19_RoundTrip ==
    (last.op = "RoundTrip")
        => /\ ~last.out.panicked
           /\ IsResult(last.out.ret)
           /\ IF IsOk(last.recv)
              THEN IsOk(last.out.ret) /\ last.out.held = last.arg[2]
              ELSE IsErr(last.out.ret) /\ last.out.ret.err = last.arg[1]

\* an Ok holding a value other than the zero value went round
C19_Witness ==
    /\ last.op = "RoundTrip"
    /\ IsOk(last.recv)
    /\ last.arg[2] # Zero
    /\ IsOk(last.out.ret) /\ last.out.held = last.arg[2]

OrOps == {"Option.Or", "Result.Or"}
OrFuncOps == {"Option.OrFunc", "Result.OrFunc"}

\* C20: Or(other) and OrFunc(fn) on a present Option / an Ok Result return
\* the receiver unchanged, and OrFunc does not invoke fn; on an absent
\* Option / an Err Result Or returns other, and OrFunc invokes fn exactly
\* once (with the cause, for a Result) and returns what fn returned.
C20_OrShortCircuits ==
    /\ (last.op \in OrOps \cup OrFuncOps /\ RecvPresent)
          => /\ ~last.out.panicked
             /\ last.out.ret = last.recv
             /\ last.out.held = Held(mem, last.recv)
             /\ last.out.calls = <<>>
    /\ (last.op \in OrOps /\ ~RecvPresent)
          => ~last.out.panicked /\ last.out.ret = last.arg
    /\ (last.op \in OrFuncOps /\ ~RecvPresent)
          => /\ last.out.calls
                   = IF IsResult(last.recv) THEN <<last.recv.err>> ELSE <<NIL>>
             /\ ~last.f.panicked
                   => /\ ~last.out.panicked
                      /\ CASE last.f.ret.mk = "obj" -> last.out.ret = last.f.ret.c
                           [] last.f.ret.mk \in {"Val", "Ok"}
                                 -> last.out.held = last.f.ret.v
                           [] last.f.ret.mk = "Nul"
                                 -> IsOption(last.out.ret) /\ IsNul(last.out.ret)
                           [] last.f.ret.mk = "Err"
                                 -> IsResult(last.out.ret)
                                    /\ last.out.ret.err = last.f.ret.e

\* OrFunc on an Ok, with a function that would have panicked
C20_Witness ==
    /\ last.op = "Result.OrFunc"
    /\ IsOk(last.recv)
    /\ last.f.panicked
    /\ last.out.ret = last.recv

----------------------------------------------------------------------------
(* MapErr, MapOrFunc, the Option chain combinators (SpecCall)              *)

MapErrOps == {"Result.MapErr", "Result.MapErrSafe"}

C22_DoElseDo ==
    (last.op = "Result.Do.ElseDo" /\ ~last.f.panicked /\ ~last.arg.panicked)
        => /\ ~last.out.panicked
           /\ last.out.ret = last.recv
           /\ last.out.held = Held(mem, last.recv)
           /\ Len(last.out.calls) = 1
           /\ last.out.calls[1]
                 = IF IsOk(last.recv) THEN Held(mem, last.recv) ELSE last.recv.err

\* on an Err only g ran, with the cause
C22_Witness ==
    /\ last.op = "Result.Do.ElseDo"
    /\ IsErr(last.recv)
    /\ ~last.f.panicked /\ ~last.arg.panicked
    /\ last.out.calls = <<last.recv.err>>
    /\ last.out.ret = last.recv

OptionChainOps ==
    {"Option.Try", "Option.Filter", "Option.Then", "Option.Map",
     "Option.Catch", "Option.Else", "Option.ElseVal", "Option.Finally"}

\* the callback of the Option chain combinator of the last call applies to
\* the receiver's tag
OptionCallbackApplies ==
    \/ last.op \in {"Option.Try", "Option.Filter", "Option.Then", "Option.Map"}
          /\ IsVal(last.recv)
    \/ last.op \in {"Option.Catch", "Option.Else", "Option.ElseVal"} /\ IsNul(last.recv)
    \/ last.op = "Option.Finally"

MapOrFuncOps == {"Option.MapOrFunc", "Result.MapOrFunc"}

\* the fallback function of the last MapOrFunc had to run: the receiver was
\* absent / Err, or okFn panicked with an error matching ErrMust
FallbackDue ==
    \/ ~RecvPresent
    \/ last.f.panicked /\ Matches(last.f.payload, <<ErrMust>>)

\* C24: MapOrFunc on a present Option / an Ok Result whose okFn returns
\* gives okFn(value) and never invokes the fallback function.  When the
\* receiver is absent / Err, or okFn panics with an error matching ErrMust,
\* the fallback function is invoked (errFn with the receiver's cause,
\* respectively with the captured fault) and its result is the result; a
\* panic of the fallback function reaches the caller unchanged.
C24_MapOrFunc ==
    (last.op \in MapOrFuncOps)
        => /\ (RecvPresent /\ ~last.f.panicked)
                 => /\ ~last.out.panicked
                    /\ last.out.ret = last.f.ret
                    /\ last.out.calls = <<Held(mem, last.recv)>>
           /\ FallbackDue
                 => /\ last.out.calls
                         = (IF RecvPresent THEN <<Held(mem, last.recv)>> ELSE <<>>)
                              \o <<IF last.op = "Option.MapOrFunc" THEN NIL
                                    ELSE IF RecvPresent THEN last.f.payload
                                    ELSE last.recv.err>>
                    /\ IF last.arg.panicked
                       THEN last.out.panicked /\ last.out.payload = last.arg.payload
                       ELSE ~last.out.panicked /\ last.out.ret = last.arg.ret

\* okFn panicked through MustGet on an Ok, and errFn, given that fault,
\* panicked through MustGet too: its panic reached the caller
C24_Witness ==
    /\ last.op = "Result.MapOrFunc"
    /\ IsOk(last.recv)
    /\ last.f.panicked /\ last.f.must = E1
    /\ last.arg.panicked /\ last.arg.must = ErrMust
    /\ last.out.calls[2] = last.f.payload
    /\ last.out.panicked /\ last.out.payload = last.arg.payload

----------------------------------------------------------------------------
(* The sentinel helpers and the executor, composed (SpecCall)              *)

WrapPanicOps == {"WrapPanic", "WrapPanicLatest", "WrapPanicGet", "WrapPanicGetLatest"}

\* C25: WrapPanic(f) and WrapPanicGet(f) return normally iff f does (and
\* WrapPanicGet returns f's result); when f panics, with an error or not,
\* they panic with an error p such that errors.Is(p, ErrMust), and
\* errors.Is(p, e) when the payload was the error e.  So
\* CatchMustPanic(func() { WrapPanic(f) }) never panics: it returns nil iff
\* f returned normally, and otherwise an error matching ErrMust.
C25_WrapPanic ==
    /\ (last.op \in WrapPanicOps)
          => /\ last.out.panicked <=> last.f.panicked
             /\ ~last.f.panicked
                   => last.out.ret
                        = IF last.op \in {"WrapPanic", "WrapPanicLatest"} THEN NIL
                          ELSE last.f.ret
             /\ last.f.panicked
                   => /\ IsError(last.out.payload)
                      /\ Is(last.out.payload, ErrMust)
                      /\ IsError(last.f.payload)
                            => Is(last.out.payload, last.f.payload)
    /\ (last.op = "CatchMustPanic")
          => /\ ~last.out.panicked
             /\ (last.out.ret = NIL) <=> ~last.f.panicked
             /\ last.f.panicked
                   => IsError(last.out.ret) /\ Is(last.out.ret, ErrMust)

\* f panicked with a string, and WrapPanic panicked with an error matching
\* ErrMust
C25_Witness ==
    /\ last.op = "WrapPanic"
    /\ last.f.panicked /\ last.f.payload = StrV("boom")
    /\ last.out.panicked
    /\ IsError(last.out.payload) /\ Is(last.out.payload, ErrMust)

----------------------------------------------------------------------------
(* Chains written as one expression (SpecCall)                             *)

\* C26: Err is absorbing: from Err(e), after any sequence of Try, Then
\* (ThenT), Map (MapT) steps with arbitrary callbacks the result is still
\* an Err whose cause is exactly e, and no callback has been invoked.
C26_ErrAbsorbing ==
    (last.op = "ErrChain")
        => /\ ~last.out.panicked
           /\ IsResult(last.out.ret) /\ IsErr(last.out.ret)
           /\ last.out.ret.err = last.recv.err
           /\ last.out.calls = <<>>

\* a chain of several steps, one of them with a callback that would have
\* panicked and one with a callback that would have returned an Ok
C26_Witness ==
    /\ last.op = "ErrChain"
    /\ Len(last.arg) >= 2
    /\ \E i \in 1..Len(last.arg) : last.arg[i].f.panicked
    /\ \E i \in 1..Len(last.arg) :
          last.arg[i].op = "Then" /\ ~last.arg[i].f.panicked
              /\ last.arg[i].f.ret.mk = "Ok"
    /\ last.out.ret.err = last.recv.err

\* C27: in Ok(v).Try(f).Catch(g), f is invoked exactly once, with v; g is
\* invoked iff f panicked with an error matching ErrMust, and then exactly
\* once, after f, with that panic payload; when f returns normally g is
\* never invoked and the chain evaluates to Ok(v).
C27_TryCatch ==
    (last.op = "Ok.Try.Catch")
        => /\ last.out.calls
                 = IF last.f.panicked /\ Matches(last.f.payload, <<ErrMust>>)
                   THEN <<last.arg[2], last.f.payload>>
                   ELSE <<last.arg[2]>>
           /\ ~last.f.panicked
                 => /\ ~last.out.panicked
                    /\ IsResult(last.out.ret) /\ IsOk(last.out.ret)
                    /\ last.out.ret = last.recv
                    /\ last.out.held = last.arg[2]

\* f panicked through MustGet, and g was given that panic
C27_Witness ==
    /\ last.op = "Ok.Try.Catch"
    /\ last.f.panicked /\ last.f.must = E1
    /\ ~last.arg[1].panicked
    /\ last.out.calls = <<last.arg[2], last.f.payload>>
    /\ IsResult(last.out.ret) /\ IsErr(last.out.ret)

----------------------------------------------------------------------------
(* Causes (SpecCall)                                                       *)

CauseOps ==
    {"Result.Catch", "Result.Finally", "Result.Else", "Result.ElseMap",
     "Result.CatchSafe", "Result.FinallySafe", "Result.ElseSafe"}

\* C28: when the receiver is Err(e0) and the callback of Catch, Finally,
\* Else or ElseMap panics with an error p matching ErrMust, the call
\* returns an Err whose cause is exactly p: no new error is made of p and
\* e0, so e0 is reachable from the cause only if p itself wraps it.
C28_CauseIsFault ==
    (/\ last.op \in CauseOps
     /\ IsErr(last.recv)
     /\ last.f.panicked
     /\ Matches(last.f.payload, <<ErrMust>>))
        => /\ ~last.out.panicked
           /\ IsResult(last.out.ret) /\ IsErr(last.out.ret)
           /\ last.out.ret.err = last.f.payload
           /\ Is(last.out.ret.err, last.recv.err) <=> Is(last.f.payload, last.recv.err)

\* Catch on Err(E2) whose callback panicked through MustGet(.., E1): the
\* returned cause does not contain E2
C28_Witness ==
    /\ last.op = "Result.Catch"
    /\ IsErr(last.recv) /\ last.recv.err = E2
    /\ last.f.panicked /\ last.f.must = E1
    /\ IsResult(last.out.ret) /\ last.out.ret.err = last.f.payload
    /\ ~Is(last.out.ret.err, E2)

----------------------------------------------------------------------------
(* Nested executors, sentinel wrapping (SpecCall)                          *)

\* 1 when b holds, else 0
Count(b) == IF b THEN 1 ELSE 0

\* C29: nested executors compose.  When the inner executor, with a
\* non-empty list, re-raises a fault it does not expect, the enclosing one
\* gets the identical payload and applies its own rule: it returns it (as
\* an error) when its list is empty or matches, and re-raises it otherwise.
\* A fault the inner executor captured is not seen by the enclosing one,
\* and a fault ends as exactly one of: the error the inner executor
\* returns, the error the enclosing one returns, a propagated panic.
C29_NestedExecutors ==
    (last.op = "Nested")
        => LET inner == last.arg[1]
               outer == last.arg[2]
               got == last.arg[3]
               p == last.f.payload
           IN  /\ (last.f.panicked /\ Len(inner) > 0 /\ ~Matches(p, inner))
                     => /\ got.panicked /\ got.payload = p /\ got.ret = NIL
                        /\ IF Len(outer) = 0
                           THEN /\ ~last.out.panicked
                                /\ IsError(last.out.ret)
                                /\ IsError(p) => last.out.ret = p
                                /\ ~IsError(p) => ErrorText(last.out.ret) = Format(p)
                           ELSE IF Matches(p, outer)
                           THEN ~last.out.panicked /\ last.out.ret = p
                           ELSE /\ last.out.panicked /\ last.out.payload = p
                                /\ last.out.ret = NIL
               /\ (last.f.panicked /\ (Len(inner) = 0 \/ Matches(p, inner)))
                     => /\ ~got.panicked /\ got.ret # NIL
                        /\ ~last.out.panicked /\ last.out.ret = NIL
               /\ ~last.f.panicked
                     => /\ ~got.panicked /\ got.ret = NIL
                        /\ ~last.out.panicked /\ last.out.ret = NIL
               /\ Count(got.ret # NIL) + Count(last.out.ret # NIL)
                        + Count(last.out.panicked)
                     = Count(last.f.panicked)

\* ErrMust went through an inner executor expecting E2 and was captured by
\* the enclosing one, which expects E2 or ErrMust
C29_Witness ==
    /\ last.op = "Nested"
    /\ last.arg[1] = <<E2>> /\ last.arg[2] = <<E2, ErrMust>>
    /\ last.f.panicked /\ last.f.payload = ErrMust
    /\ last.arg[3].panicked
    /\ ~last.out.panicked /\ last.out.ret = ErrMust

\* C30: in the latest util, WrapMust gives back an error that already
\* matches ErrMust as it is, so applying it twice gives what applying it
\* once gives; MustGet and MustNil panic with err itself when err already
\* matches ErrMust.
C30_WrapMustIdempotent ==
    /\ (last.op = "WrapMustLatest")
          => LET v == last.arg[1]
                 once == last.arg[2]
             IN  /\ (IsError(v) /\ Is(v, ErrMust)) => once = v
                 /\ Is(once, ErrMust)
                 /\ ~last.out.panicked /\ last.out.ret = once
    /\ (last.op \in {"MustGetLatest", "MustNil"})
          => LET err == last.arg[Len(last.arg)]
             IN  (err # NIL /\ Is(err, ErrMust))
                     => last.out.panicked /\ last.out.payload = err

\* E1 was wrapped once, and the second WrapMust added nothing
C30_Witness ==
    /\ last.op = "WrapMustLatest"
    /\ last.arg[1] = E1 /\ last.arg[2] # E1
    /\ Is(last.arg[2], E1) /\ Is(last.arg[2], ErrMust)
    /\ last.out.ret = last.arg[2]

====
